---- MODULE Spec2Model ----
(***************************************************************************)
(* Model of src/quote_generator/generate_quote_image.py: the quote image   *)
(* generator.  Strings are sequences of one-character strings, so that     *)
(* textwrap's wrapping, the "\n" -> "<br/>" replacement and the file names  *)
(* are computed as the program computes them.                              *)
(*                                                                         *)
(* Two specifications:                                                     *)
(*   Spec      runs of the program (main), one after another, on one       *)
(*             machine (the installation: Pillow, fonts, is fixed);        *)
(*   CallSpec  direct calls of make_svg_text_block and                     *)
(*             rasterize_svg_to_png with arbitrary quote and size.         *)
(*                                                                         *)
(* Environment assumptions: the file system is writable (an I/O error      *)
(* would end the process with an uncaught exception; it is not modelled).  *)
(* The quotes contain no "-" and are at most a few words, so textwrap's    *)
(* hyphen and em-dash break points never apply and are not modelled.       *)
(***************************************************************************)
EXTENDS Integers, Sequences, FiniteSets, TLC

\* Python's None, for a string (a one-element sequence no string equals), for a
\* font, for a document or image object, and for a timestamp.
None == "None"

NoneText == << None >>

NoObject == [none |-> TRUE]

(***************************************************************************)
(* Bounds of the model.                                                    *)
(***************************************************************************)
\* Runs of main() in one behaviour of Spec; also the number of timestamps.
MaxRuns == 2
\* Words in a quote passed to a direct call (CallSpec).
MaxWords == 3
\* Font metrics reported by the imaging library (textbbox): the height of a
\* line without descenders, the extra depth of a line with descenders, and
\* the advance width of one character.
CapHeight == 35
Descender == 10
CharWidth == 24

QUOTES ==
    <<
       << "T", "h", "e", " ", "o", "n", "l", "y", " ", "l", "i", "m", "i", "t", " ", "t",
          "o", " ", "o", "u", "r", " ", "r", "e", "a", "l", "i", "z", "a", "t", "i", "o",
          "n", " ", "o", "f", " ", "t", "o", "m", "o", "r", "r", "o", "w", " ", "i", "s",
          " ", "o", "u", "r", " ", "d", "o", "u", "b", "t", "s", " ", "o", "f", " ", "t",
          "o", "d", "a", "y", "." >>,
       << "D", "o", " ", "s", "o", "m", "e", "t", "h", "i", "n", "g", " ", "t", "o", "d",
          "a", "y", " ", "t", "h", "a", "t", " ", "y", "o", "u", "r", " ", "f", "u", "t",
          "u", "r", "e", " ", "s", "e", "l", "f", " ", "w", "i", "l", "l", " ", "t", "h",
          "a", "n", "k", " ", "y", "o", "u", " ", "f", "o", "r", "." >>,
       << "S", "m", "a", "l", "l", " ", "s", "t", "e", "p", "s", " ", "e", "v", "e", "r",
          "y", " ", "d", "a", "y", " ", "l", "e", "a", "d", " ", "t", "o", " ", "b", "i",
          "g", " ", "c", "h", "a", "n", "g", "e", "s", " ", "o", "v", "e", "r", " ", "t",
          "i", "m", "e", "." >>,
       << "B", "e", "l", "i", "e", "v", "e", " ", "y", "o", "u", " ", "c", "a", "n", " ",
          "a", "n", "d", " ", "y", "o", "u", "'", "r", "e", " ", "h", "a", "l", "f", "w",
          "a", "y", " ", "t", "h", "e", "r", "e", "." >>,
       << "P", "r", "o", "g", "r", "e", "s", "s", ",", " ", "n", "o", "t", " ", "p", "e",
          "r", "f", "e", "c", "t", "i", "o", "n", "." >>,
       << "S", "t", "a", "r", "t", " ", "w", "h", "e", "r", "e", " ", "y", "o", "u", " ",
          "a", "r", "e", ".", " ", "U", "s", "e", " ", "w", "h", "a", "t", " ", "y", "o",
          "u", " ", "h", "a", "v", "e", ".", " ", "D", "o", " ", "w", "h", "a", "t", " ",
          "y", "o", "u", " ", "c", "a", "n", "." >>,
       << "Y", "o", "u", "r", " ", "o", "n", "l", "y", " ", "l", "i", "m", "i", "t", " ",
          "i", "s", " ", "y", "o", "u", "." >>,
       << "D", "r", "e", "a", "m", " ", "b", "i", "g", ".", " ", "S", "t", "a", "r", "t",
          " ", "s", "m", "a", "l", "l", ".", " ", "A", "c", "t", " ", "n", "o", "w", "." >>,
       << "C", "o", "n", "s", "i", "s", "t", "e", "n", "c", "y", " ", "c", "o", "m", "p",
          "o", "u", "n", "d", "s", " ", "i", "n", "t", "o", " ", "r", "e", "s", "u", "l",
          "t", "s", "." >>,
       << "B", "e", " ", "s", "t", "r", "o", "n", "g", "e", "r", " ", "t", "h", "a", "n",
          " ", "y", "o", "u", "r", " ", "e", "x", "c", "u", "s", "e", "s", "." >>
    >>

(***************************************************************************)
(* Sequence helpers.                                                       *)
(***************************************************************************)
RECURSIVE Concat(_)
Concat(ss) ==
    IF ss = << >> THEN << >> ELSE Head(ss) \o Concat(Tail(ss))

RECURSIVE Join(_, _)
Join(ss, sep) ==
    IF ss = << >> THEN << >>
    ELSE IF Len(ss) = 1 THEN ss[1]
    ELSE ss[1] \o sep \o Join(Tail(ss), sep)

Last(s) == s[Len(s)]

Front(s) == SubSeq(s, 1, Len(s) - 1)

\* s[i:], with Python's 0-based index i.
From(s, i) == SubSeq(s, i + 1, Len(s))

\* s[:i], with Python's 0-based index i.
UpTo(s, i) == SubSeq(s, 1, i)

\* The least element of a non-empty set of integers.
Least(S) == CHOOSE i \in S : \A j \in S : i <= j

\* The greatest element of a non-empty set of integers.
Greatest(S) == CHOOSE i \in S : \A j \in S : i >= j

\* s.find(m) + 1: the first position where m occurs in s, or 0.
Find(s, m) ==
    LET at == {i \in 1..(Len(s) - Len(m) + 1) : SubSeq(s, i, i + Len(m) - 1) = m}
    IN  IF at = {} THEN 0 ELSE Least(at)

\* str.replace(old, new), scanning left to right without overlap.
RECURSIVE Replace(_, _, _)
Replace(s, old, new) ==
    LET i == Find(s, old)
    IN  IF i = 0 THEN s
        ELSE SubSeq(s, 1, i - 1) \o new \o Replace(From(s, i - 1 + Len(old)), old, new)

\* str.split(sep): the pieces of s between the occurrences of sep.
RECURSIVE Split(_, _)
Split(s, sep) ==
    LET i == Find(s, sep)
    IN  IF i = 0 THEN << s >>
        ELSE << SubSeq(s, 1, i - 1) >> \o Split(From(s, i - 1 + Len(sep)), sep)

(***************************************************************************)
(* textwrap.TextWrapper with the defaults of textwrap.wrap/fill:           *)
(* expand_tabs, replace_whitespace, drop_whitespace, break_long_words,     *)
(* tabsize 8, no indents, no max_lines.                                    *)
(***************************************************************************)
\* max_chars in make_svg_text_block.
max_chars == 32

\* A raster renderer that wraps two columns narrower than the vector one.
r_max_chars_narrow == max_chars - 2

\* max_chars in rasterize_svg_to_png.
r_max_chars == 32

tabsize == 8

NL == "\n"

TAB == "\t"

Whitespace == {" ", TAB, NL}

BR == << "<", "b", "r", "/", ">" >>

\* str.expandtabs(tabsize): a tab becomes spaces up to the next tab stop; the
\* column restarts after a line break.  col is the column s starts at.
RECURSIVE ExpandTabs(_, _)
ExpandTabs(s, col) ==
    LET i == Find(s, << TAB >>)
    IN  IF i = 0 THEN s
        ELSE LET before == SubSeq(s, 1, i - 1)
                 breaks == {j \in 1..(i - 1) : s[j] = NL}
                 c      == IF breaks = {} THEN col + (i - 1)
                           ELSE (i - 1) - Greatest(breaks)
                 n      == tabsize - (c % tabsize)
             IN  before \o [j \in 1..n |-> " "] \o ExpandTabs(From(s, i), 0)

\* TextWrapper._munge_whitespace: tabs expanded, then every whitespace
\* character replaced by one space.
MungeWhitespace(text) ==
    LET e == ExpandTabs(text, 0)
    IN  [i \in 1..Len(e) |-> IF e[i] \in Whitespace THEN " " ELSE e[i]]

\* chunk.strip() == '': the chunk is empty or all spaces.
IsBlank(chunk) == \A i \in 1..Len(chunk) : chunk[i] = " "

\* TextWrapper._split_chunks: maximal runs of spaces and of non-spaces,
\* in order (wordsep_re without hyphens in the text).
RECURSIVE SplitChunks(_)
SplitChunks(text) ==
    IF text = << >> THEN << >>
    ELSE LET ends == {i \in 2..Len(text) : (text[i] = " ") # (text[1] = " ")}
         IN  IF ends = {} THEN << text >>
             ELSE << SubSeq(text, 1, Least(ends) - 1) >>
                      \o SplitChunks(From(text, Least(ends) - 1))

\* The inner loop of _wrap_chunks: chunks are moved to the current line
\* while they fit in the width.
RECURSIVE TakeFitting(_, _, _, _)
TakeFitting(chunks, cur_line, cur_len, width) ==
    IF chunks # << >> /\ cur_len + Len(Head(chunks)) <= width
    THEN TakeFitting(Tail(chunks), Append(cur_line, Head(chunks)),
                     cur_len + Len(Head(chunks)), width)
    ELSE [cur_line |-> cur_line, cur_len |-> cur_len, chunks |-> chunks]

\* _handle_long_word as it is without break_long_words: the long chunk is
\* kept whole, on a line of its own.
HandleLongWordUnbroken(st, width) ==
    IF st.cur_line = << >>
    THEN [cur_line |-> << Head(st.chunks) >>,
          cur_len  |-> Len(Head(st.chunks)),
          chunks   |-> Tail(st.chunks)]
    ELSE st

\* TextWrapper._handle_long_word with break_long_words: the chunk that fits on
\* no line is cut at the space left on the current line.
HandleLongWord(st, width) ==
    LET space_left == IF width < 1 THEN 1 ELSE width - st.cur_len
        chunk      == Head(st.chunks)
    IN  [cur_line |-> Append(st.cur_line, UpTo(chunk, space_left)),
         cur_len  |-> st.cur_len + space_left,
         chunks   |-> << From(chunk, space_left) >> \o Tail(st.chunks)]

\* The line as it is without drop_whitespace: a trailing blank chunk stays.
DropTrailingBlankNever(cur_line) == cur_line

\* The last chunk of the line is dropped when it is blank (drop_whitespace).
DropTrailingBlank(cur_line) ==
    IF cur_line # << >> /\ IsBlank(Last(cur_line)) THEN Front(cur_line) ELSE cur_line

\* TextWrapper._wrap_chunks: one line per iteration of the outer loop.
RECURSIVE WrapChunks(_, _, _)
WrapChunks(chunks, lines, width) ==
    IF chunks = << >> THEN lines
    ELSE LET c0 == IF IsBlank(Head(chunks)) /\ lines # << >> THEN Tail(chunks) ELSE chunks
             st == TakeFitting(c0, << >>, 0, width)
             lw == IF st.chunks # << >> /\ Len(Head(st.chunks)) > width
                   THEN HandleLongWord(st, width) ELSE st
             cl == DropTrailingBlank(lw.cur_line)
         IN  WrapChunks(lw.chunks, IF cl # << >> THEN Append(lines, Concat(cl)) ELSE lines, width)

\* textwrap.wrap(text, width): the list of wrapped lines.
Wrap(text, width) == WrapChunks(SplitChunks(MungeWhitespace(text)), << >>, width)

\* textwrap.fill(text, width): the lines joined by "\n".
Fill(text, width) == Join(Wrap(text, width), << NL >>)


(***************************************************************************)
(* The program's state.                                                    *)
(*   PIL_AVAILABLE, loadable: the installation (whether Pillow imports,    *)
(*     which of the candidate fonts load);                                 *)
(*   files, dirExists: the output directory; stdout: the printed lines;    *)
(*   pc, runs, trace: the position in the program ("raised": ended by an   *)
(*     uncaught exception), the number of runs started, the steps main     *)
(*     has taken in the current run;                                       *)
(*   quote, size, svg, ts, rasterized: main's locals (the arguments of a   *)
(*     direct call in CallSpec);                                           *)
(*   r_quote, r_size, png_path, img, font, p, lines, line_h, total_h, y,   *)
(*     k: rasterize_svg_to_png's parameters and locals (p and k are the    *)
(*     positions of its two loops).                                        *)
(***************************************************************************)
VARIABLES PIL_AVAILABLE, loadable, files, dirExists, stdout,
          pc, runs, trace, quote, size, svg, ts, rasterized,
          r_quote, r_size, png_path, img, font, p, lines, line_h, total_h, y, k

envVars == << PIL_AVAILABLE, loadable >>

mainVars == << runs, trace, quote, size, svg, ts, dirExists, stdout >>

rasterVars == << r_quote, r_size, png_path, img, font, p, lines, line_h, total_h, y, k >>

vars == << PIL_AVAILABLE, loadable, files, dirExists, stdout,
           pc, runs, trace, quote, size, svg, ts, rasterized,
           r_quote, r_size, png_path, img, font, p, lines, line_h, total_h, y, k >>

(***************************************************************************)
(* Files and timestamps.  A timestamp stands for one value of              *)
(* datetime.now().strftime("%Y%m%d-%H%M%S"): one second of wall-clock time.*)
(* The program never compares timestamps, so the seconds are numbered in   *)
(* the order the runs first meet them.                                     *)
(***************************************************************************)
Timestamps == 1..MaxRuns

NoTs == 0

\* A vector file name that leaves the timestamp out.
SvgNameFixed(t) == [stem |-> << "quote-", 1 >>, ext |-> "svg"]

\* f"quote-{ts}.svg" and f"quote-{ts}.png" in out_dir.
SvgName(t) == [stem |-> << "quote-", t >>, ext |-> "svg"]

PngName(t) == [stem |-> << "quote-", t >>, ext |-> "png"]

\* What datetime.now() can return: the second of an earlier run, or a new one.
Now ==
    LET used == {t \in Timestamps : files[SvgName(t)] # NoObject}
    IN  used \cup {Cardinality(used) + 1}

Names == {SvgName(t) : t \in Timestamps} \cup {PngName(t) : t \in Timestamps}

(***************************************************************************)
(* make_svg_text_block: the document, as the values the f-string embeds.   *)
(***************************************************************************)
DefaultSize == 1080

make_svg_text_block(q, sz) ==
    LET wrapped == Fill(q, max_chars)
    IN  [width  |-> sz, height |-> sz,
         panel  |-> [x |-> 40, y |-> 40, width |-> sz - 80, height |-> sz - 80, rx |-> 40],
         fobj   |-> [x |-> 80, y |-> 120, width |-> sz - 160, height |-> sz - 240],
         font_size |-> 48,
         text   |-> Replace(wrapped, << NL >>, BR)]

(***************************************************************************)
(* The imaging library, as rasterize_svg_to_png uses it.                   *)
(***************************************************************************)
possible_fonts ==
    << "/Library/Fonts/Arial Unicode.ttf",
       "/Library/Fonts/Arial.ttf",
       "/System/Library/Fonts/SFNNSF-Regular.otf" >>

DefaultFont == "load_default"

line_spacing == 6

margin == 40

DescenderGlyphs == {"g", "j", "p", "q", "y", ","}

HasDescender(text) == \E i \in 1..Len(text) : text[i] \in DescenderGlyphs

\* draw.textbbox((0, 0), text, font): (left, top, right, bottom), the box of
\* the ink: as wide as the characters, and deeper when a glyph descends below
\* the baseline.
TextBBox(text) ==
    << 0, 0, Len(text) * CharWidth,
       CapHeight + (IF HasDescender(text) THEN Descender ELSE 0) >>

\* Image.new("RGB", (size, size), color=(15, 23, 42)) with its Draw object.
NewImage(sz) ==
    [size |-> sz, color |-> << 15, 23, 42 >>, rects |-> << >>, texts |-> << >>]

\* The guard left out: the renderer goes on without the library.
UnavailableNever == FALSE

\* The guard of rasterize_svg_to_png: "if not PIL_AVAILABLE: return False".
Unavailable == ~PIL_AVAILABLE

\* The font loop without its break: after a load that succeeds the later
\* candidates are tried too.
TryFontNoBreak(i, ok) ==
    [font |-> IF ok THEN possible_fonts[i] ELSE None,
     p    |-> i + 1,
     pc   |-> IF i + 1 > Len(possible_fonts) THEN "r_fallback" ELSE "r_font"]

\* One pass of the font loop on candidate i: a load that succeeds ends the
\* loop (break); a load that raises is caught and the loop goes on.
TryFont(i, ok) ==
    IF ok
    THEN [font |-> possible_fonts[i], p |-> i, pc |-> "r_fallback"]
    ELSE [font |-> None, p |-> i + 1,
          pc |-> IF i + 1 > Len(possible_fonts) THEN "r_fallback" ELSE "r_font"]

\* total_h = line_h * len(lines) + (len(lines)-1) * 6
TotalHeight(lh, n) == lh * n + (n - 1) * line_spacing

\* The division rounding toward zero, as C's / does.
CenteredTruncating(sz, extent) ==
    IF sz - extent >= 0 THEN (sz - extent) \div 2 ELSE -((extent - sz) \div 2)

\* (size - extent) // 2: Python's floor division.
Centered(sz, extent) == (sz - extent) \div 2

(***************************************************************************)
(* rasterize_svg_to_png(svg_path, png_path, size, quote), step by step.    *)
(***************************************************************************)
\* Lines 68-72: the capability guard, then the canvas.  Past the guard the
\* names Image and ImageDraw are used: where the import failed they are
\* undefined, and using them raises NameError.
R_Enter ==
    /\ pc = "r_enter"
    /\ IF Unavailable
       THEN /\ rasterized' = FALSE
            /\ pc' = "returned"
            /\ UNCHANGED << img, font, p >>
       ELSE IF ~PIL_AVAILABLE
       THEN /\ pc' = "raised"
            /\ UNCHANGED << rasterized, img, font, p >>
       ELSE /\ img' = NewImage(r_size)
            /\ font' = None
            /\ p' = 1
            /\ pc' = "r_font"
            /\ UNCHANGED rasterized
    /\ UNCHANGED << envVars, mainVars, files, r_quote, r_size, png_path,
                    lines, line_h, total_h, y, k >>

\* Lines 80-85: one candidate font is tried.
R_TryFont ==
    /\ pc = "r_font"
    /\ p <= Len(possible_fonts)
    /\ LET r == TryFont(p, p \in loadable)
       IN  /\ font' = r.font
           /\ p' = r.p
           /\ pc' = r.pc
    /\ UNCHANGED << envVars, mainVars, files, rasterized, r_quote, r_size, png_path,
                    img, lines, line_h, total_h, y, k >>

\* Lines 87-92: the built-in font when no candidate loaded; the inner panel.
R_Fallback ==
    /\ pc = "r_fallback"
    /\ font' = IF font = None THEN DefaultFont ELSE font
    /\ img' = [img EXCEPT !.rects =
                 Append(@, [box  |-> << margin, margin, r_size - margin, r_size - margin >>,
                            fill |-> << 11, 18, 32 >>])]
    /\ pc' = "r_layout"
    /\ UNCHANGED << envVars, mainVars, files, rasterized, r_quote, r_size, png_path,
                    p, lines, line_h, total_h, y, k >>

\* Lines 95-103: the text, its wrapped lines, the block height and the top y.
R_Layout ==
    /\ pc = "r_layout"
    /\ LET text == IF r_quote # NoneText THEN r_quote ELSE QUOTES[1]
           ls   == Wrap(text, r_max_chars)
           bbox == TextBBox(<< "A" >>)
           lh   == bbox[4] - bbox[2]
           th   == TotalHeight(lh, Len(ls))
       IN  /\ lines' = ls
           /\ line_h' = lh
           /\ total_h' = th
           /\ y' = Centered(r_size, th)
    /\ k' = 1
    /\ pc' = "r_draw"
    /\ UNCHANGED << envVars, mainVars, files, rasterized, r_quote, r_size, png_path,
                    img, font, p >>

\* Lines 105-111: one line is measured, centred horizontally and drawn.
R_DrawLine ==
    /\ pc = "r_draw"
    /\ k <= Len(lines)
    /\ LET line == lines[k]
           bbox == TextBBox(line)
           w    == bbox[3] - bbox[1]
           h    == bbox[4] - bbox[2]
           x    == Centered(r_size, w)
       IN  /\ img' = [img EXCEPT !.texts =
                        Append(@, [xy |-> << x, y >>, text |-> line, font |-> font,
                                   fill |-> << 255, 255, 255 >>])]
           /\ y' = y + h + line_spacing
    /\ k' = k + 1
    /\ UNCHANGED << envVars, mainVars, files, rasterized, pc, r_quote, r_size, png_path,
                    font, p, lines, line_h, total_h >>

\* Lines 113-114: img.save(png_path); return True.
R_Save ==
    /\ pc = "r_draw"
    /\ k > Len(lines)
    /\ files' = [files EXCEPT ![png_path] = img]
    /\ rasterized' = TRUE
    /\ pc' = "returned"
    /\ UNCHANGED << envVars, mainVars, rasterVars >>

Rasterize == R_Enter \/ R_TryFont \/ R_Fallback \/ R_Layout \/ R_DrawLine \/ R_Save

(***************************************************************************)
(* main(), step by step.                                                   *)
(***************************************************************************)
\* The timestamp main uses for the raster file name (line 134): the one taken
\* on line 126.
PngStamp(t) == t

\* The call without quote=quote: the parameter keeps its default, None.
QuoteArgMissing(q) == NoneText

\* The quote main passes to the raster renderer (line 135): quote=quote.
QuoteArg(q) == q

\* Lines 118-120 of a new process: out_dir.mkdir(exist_ok=True).
M_MakeDir ==
    /\ pc \in {"idle", "done", "raised"}
    /\ runs < MaxRuns
    /\ runs' = runs + 1
    /\ dirExists' = TRUE
    /\ trace' = << "mkdir" >>
    /\ stdout' = << >>
    /\ quote' = NoneText
    /\ svg' = NoObject
    /\ ts' = NoTs
    /\ rasterized' = FALSE
    /\ r_quote' = NoneText
    /\ r_size' = 0
    /\ png_path' = NoObject
    /\ img' = NoObject
    /\ font' = None
    /\ p' = 0
    /\ lines' = << >>
    /\ line_h' = 0
    /\ total_h' = 0
    /\ y' = 0
    /\ k' = 0
    /\ pc' = "pick"
    /\ UNCHANGED << envVars, files, size >>

\* Line 122: quote = pick_quote(), a random choice in QUOTES.
M_PickQuote ==
    /\ pc = "pick"
    /\ \E i \in 1..Len(QUOTES) : quote' = QUOTES[i]
    /\ trace' = Append(trace, "pick_quote")
    /\ pc' = "render"
    /\ UNCHANGED << envVars, files, runs, size, svg, ts, dirExists, stdout,
                    rasterized, rasterVars >>

\* Lines 123-124: svg = make_svg_text_block(quote, size=size).
M_RenderSvg ==
    /\ pc = "render"
    /\ svg' = make_svg_text_block(quote, size)
    /\ trace' = Append(trace, "render_svg")
    /\ pc' = "save"
    /\ UNCHANGED << envVars, files, runs, quote, size, ts, dirExists, stdout,
                    rasterized, rasterVars >>

\* Lines 126-129: the timestamp is taken and the document written.
M_SaveSvg ==
    /\ pc = "save"
    /\ dirExists
    /\ \E now \in Now :
          /\ ts' = now
          /\ files' = [files EXCEPT ![SvgName(now)] = svg]
    /\ trace' = Append(trace, "save_svg")
    /\ pc' = "report_svg"
    /\ UNCHANGED << envVars, runs, quote, size, svg, dirExists, stdout,
                    rasterized, rasterVars >>

\* Line 132: print(f"Saved SVG to: {svg_path}").
M_ReportSvg ==
    /\ pc = "report_svg"
    /\ stdout' = Append(stdout, << "Saved SVG to: ", SvgName(ts) >>)
    /\ trace' = Append(trace, "report_svg")
    /\ pc' = "call_raster"
    /\ UNCHANGED << envVars, files, runs, quote, size, svg, ts, dirExists,
                    rasterized, rasterVars >>

\* Lines 134-135: rasterize_svg_to_png(svg_path, png_path, size=size, quote=quote).
M_CallRaster ==
    /\ pc = "call_raster"
    /\ png_path' = PngName(PngStamp(ts))
    /\ r_size' = size
    /\ r_quote' = QuoteArg(quote)
    /\ trace' = Append(trace, "rasterize")
    /\ pc' = "r_enter"
    /\ UNCHANGED << envVars, files, runs, quote, size, svg, ts, dirExists, stdout,
                    rasterized, img, font, p, lines, line_h, total_h, y, k >>

\* main with a retry: after a skipped rasterization it calls the renderer again.
M_ReportRetry ==
    /\ pc = "returned"
    /\ IF rasterized
       THEN /\ stdout' = Append(stdout, << "Saved PNG to: ", png_path >>)
            /\ trace' = Append(trace, "report_png")
            /\ pc' = "done"
       ELSE /\ stdout' = Append(stdout,
                  << "Pillow not available or rasterization skipped. PNG not created." >>)
            /\ trace' = Append(trace, "report_skip")
            /\ pc' = "call_raster"
    /\ UNCHANGED << envVars, files, runs, quote, size, svg, ts, dirExists,
                    rasterized, rasterVars >>

\* Lines 136-139: the raster path or the skip message is printed; main returns.
M_Report ==
    /\ pc = "returned"
    /\ IF rasterized
       THEN /\ stdout' = Append(stdout, << "Saved PNG to: ", png_path >>)
            /\ trace' = Append(trace, "report_png")
       ELSE /\ stdout' = Append(stdout,
                  << "Pillow not available or rasterization skipped. PNG not created." >>)
            /\ trace' = Append(trace, "report_skip")
    /\ pc' = "done"
    /\ UNCHANGED << envVars, files, runs, quote, size, svg, ts, dirExists,
                    rasterized, rasterVars >>

Main == M_MakeDir \/ M_PickQuote \/ M_RenderSvg \/ M_SaveSvg \/ M_ReportSvg
            \/ M_CallRaster \/ M_Report

(***************************************************************************)
(* Spec: runs of the program on one machine.                               *)
(***************************************************************************)
\* Without Pillow no font is ever loaded: those installations are one.
Installations ==
    {e \in [pil : BOOLEAN, fonts : SUBSET (1..Len(possible_fonts))] :
        e.pil \/ e.fonts = {}}

InitLocals ==
    /\ runs = 0
    /\ trace = << >>
    /\ stdout = << >>
    /\ svg = NoObject
    /\ ts = NoTs
    /\ rasterized = FALSE
    /\ r_quote = NoneText
    /\ r_size = 0
    /\ png_path = NoObject
    /\ img = NoObject
    /\ font = None
    /\ p = 0
    /\ lines = << >>
    /\ line_h = 0
    /\ total_h = 0
    /\ y = 0
    /\ k = 0

Init ==
    /\ \E e \in Installations :
          /\ PIL_AVAILABLE = e.pil
          /\ loadable = e.fonts
    /\ files = [n \in Names |-> NoObject]
    /\ dirExists \in BOOLEAN
    /\ pc = "idle"
    /\ quote = NoneText
    /\ size = DefaultSize
    /\ InitLocals

Next == Main \/ Rasterize

Spec == Init /\ [][Next]_vars

(***************************************************************************)
(* CallSpec: direct calls of the two renderers, as an importing module     *)
(* makes them: make_svg_text_block(quote, size), then                      *)
(* rasterize_svg_to_png(svg_path, png_path, size, quote), on any quote     *)
(* built from a few words (short, half a line, longer than a line) and     *)
(* separators, on the table's quotes, and on quote=None.                   *)
(***************************************************************************)
Rep(c, n) == [i \in 1..n |-> c]

Words == {<< "p", "i", "g" >>, Rep("m", 16), Rep("w", 33)}

Separators == {<< " " >>, << " ", " " >>, << NL >>, << TAB >>}

WordLists == UNION {[1..n -> Words] : n \in 1..MaxWords}

CallQuotes ==
    {QUOTES[i] : i \in 1..Len(QUOTES)}
        \cup {Join(ws, sep) : ws \in WordLists, sep \in Separators}

Sizes == {DefaultSize, 64}

InitCall ==
    /\ \E e \in Installations :
          /\ PIL_AVAILABLE = e.pil
          /\ loadable = e.fonts
    /\ files = [n \in Names |-> NoObject]
    /\ dirExists = TRUE
    /\ pc = "call"
    /\ quote \in CallQuotes \cup {NoneText}
    /\ size \in Sizes
    /\ InitLocals

\* svg = make_svg_text_block(quote, size), for a quote that is a string.
C_MakeSvg ==
    /\ pc = "call"
    /\ quote # NoneText
    /\ svg' = make_svg_text_block(quote, size)
    /\ pc' = "call_raster"
    /\ UNCHANGED << envVars, files, runs, trace, quote, size, ts, dirExists, stdout,
                    rasterized, rasterVars >>

\* rasterize_svg_to_png(svg_path, png_path, size, quote) is entered.
C_Rasterize ==
    /\ pc = "call_raster" \/ (pc = "call" /\ quote = NoneText)
    /\ png_path' = PngName(1)
    /\ r_size' = size
    /\ r_quote' = quote
    /\ pc' = "r_enter"
    /\ UNCHANGED << envVars, files, mainVars, rasterized,
                    img, font, p, lines, line_h, total_h, y, k >>

NextCall == C_MakeSvg \/ C_Rasterize \/ Rasterize

CallSpec == InitCall /\ [][NextCall]_vars

(***************************************************************************)
(* Properties.                                                             *)
(***************************************************************************)
RasterPcs == {"r_enter", "r_font", "r_fallback", "r_layout", "r_draw"}

SkipMessage == << "Pillow not available or rasterization skipped. PNG not created." >>

\* The lines of the vector document: its embedded text split at the markers.
VectorLines(doc) == Split(doc.text, BR)

\* The lines the raster renderer has drawn, in drawing order.
DrawnLines(image) == [i \in 1..Len(image.texts) |-> image.texts[i].text]

\* The text the raster renderer wraps.
RasterText == IF r_quote # NoneText THEN r_quote ELSE QUOTES[1]

\* The whitespace-separated words of a text.
IsWord(chunk) == ~IsBlank(chunk)

WordsOf(text) == SelectSeq(SplitChunks(MungeWhitespace(text)), IsWord)

IsInk(c) == c \notin Whitespace

Ink(text) == SelectSeq(text, IsInk)

SeqRange(sq) == {sq[i] : i \in 1..Len(sq)}

\* C1: without Pillow a run of main is not ended by an exception, it writes
\* the vector file and prints the skip message, and no raster file exists at
\* any point of it; the renderer returns False having touched nothing.
C1_NoPillowRun ==
    ~PIL_AVAILABLE =>
        /\ \A n \in Names : n.ext = "png" => files[n] = NoObject
        /\ pc # "raised"
        /\ pc \in {"returned", "done"} =>
              /\ rasterized = FALSE
              /\ img = NoObject /\ font = None /\ lines = << >>
        /\ pc = "done" =>
              /\ files[SvgName(ts)] = make_svg_text_block(quote, size)
              /\ stdout = << << "Saved SVG to: ", SvgName(ts) >>, SkipMessage >>

C1_Witness ==
    ~PIL_AVAILABLE /\ pc = "done" /\ files[SvgName(ts)] # NoObject /\ Len(stdout) = 2

\* C2, as stated: a line is longer than 32 characters only if it is one word,
\* and a word longer than 32 characters is a line of its own, unbroken, in
\* both renderers.
LongWordsUnbroken(ls, text) ==
    /\ \A i \in 1..Len(ls) : Len(ls[i]) > 32 => ls[i] \in SeqRange(WordsOf(text))
    /\ \A w \in SeqRange(WordsOf(text)) : Len(w) > 32 => w \in SeqRange(ls)

FitsWidth(ls, text) ==
    /\ \A i \in 1..Len(ls) : Len(ls[i]) <= 32
    /\ Ink(Concat(ls)) = Ink(text)

C3_SameLines ==
    (pc = "returned" /\ rasterized /\ svg # NoObject) =>
        /\ VectorLines(svg) = DrawnLines(img)
        /\ VectorLines(svg) = lines

C3_Witness ==
    /\ pc = "returned" /\ rasterized /\ svg # NoObject
    /\ Len(DrawnLines(img)) >= 3
    /\ quote \notin SeqRange(QUOTES)

\* C4: for a quote of the table, the text of the vector document with each
\* line-break marker replaced by one space is the quote.
C4_RoundTrip ==
    (svg # NoObject /\ quote \in SeqRange(QUOTES)) =>
        Replace(svg.text, BR, << " " >>) = quote

C4_Witness ==
    /\ pc = "done"
    /\ quote \in SeqRange(QUOTES)
    /\ Len(VectorLines(svg)) = 3

\* C5: when main has written a raster file, its name has the stem of the
\* vector file written in the same run, and the renderer was given the quote
\* that the vector file holds.
C5_SameStemSameQuote ==
    (runs > 0 /\ pc \in {"returned", "done"} /\ rasterized) =>
        /\ png_path.ext = "png"
        /\ png_path.stem = SvgName(ts).stem
        /\ r_quote = quote
        /\ files[SvgName(ts)] = make_svg_text_block(r_quote, r_size)
        /\ files[png_path] = img
        /\ DrawnLines(img) = VectorLines(files[SvgName(ts)])

C5_Witness ==
    /\ runs = MaxRuns /\ pc = "done" /\ rasterized
    /\ files[PngName(ts)] = img
    /\ ts = 1

\* C6: main takes its steps once each and in this order: the directory, the
\* quote, the vector document, its file, its report, the raster attempt, and
\* last exactly one of the raster report and the skip message.
MainOrder ==
    << "mkdir", "pick_quote", "render_svg", "save_svg", "report_svg", "rasterize" >>

C6_StepOrder ==
    runs > 0 =>
        /\ Len(trace) <= Len(MainOrder) + 1
        /\ \A i \in 1..Len(trace) : i <= Len(MainOrder) => trace[i] = MainOrder[i]
        /\ Len(trace) >= 1 => dirExists
        /\ (quote # NoneText) = (Len(trace) >= 2)
        /\ (svg # NoObject) = (Len(trace) >= 3)
        /\ (ts # NoTs) = (Len(trace) >= 4)
        /\ Len(trace) >= 4 => files[SvgName(ts)] = svg
        /\ (stdout # << >>) = (Len(trace) >= 5)
        /\ Len(trace) >= 5 => stdout[1] = << "Saved SVG to: ", SvgName(ts) >>
        /\ (pc \in RasterPcs \cup {"returned", "done"}) = (Len(trace) >= 6)
        /\ (pc = "done") = (Len(trace) = Len(MainOrder) + 1)
        /\ pc = "done" =>
              /\ Len(stdout) = 2
              /\ trace[Len(trace)] = (IF rasterized THEN "report_png" ELSE "report_skip")
              /\ stdout[2] = (IF rasterized THEN << "Saved PNG to: ", png_path >>
                              ELSE SkipMessage)

C6_Witness ==
    /\ pc = "done" /\ runs = MaxRuns
    /\ trace = MainOrder \o << "report_png" >>

\* C7: once the raster renderer has laid the block out, for n >= 1 lines the
\* block height is n reference line heights and n - 1 spacings of 6, and the
\* first line's y is half of what the canvas leaves, rounded down.
FirstY == IF k = 1 THEN y ELSE img.texts[1].xy[2]

C7_BlockHeight ==
    (pc = "r_draw" /\ Len(lines) >= 1) =>
        /\ line_h = TextBBox(<< "A" >>)[4] - TextBBox(<< "A" >>)[2]
        /\ total_h + 6 = Len(lines) * (line_h + 6)
        /\ 2 * FirstY <= r_size - total_h
        /\ r_size - total_h <= 2 * FirstY + 1

C7_Witness ==
    /\ pc = "r_draw" /\ k = 1
    /\ Len(lines) = 3
    /\ r_size < total_h
    /\ (r_size - total_h) % 2 = 1

\* C8: whichever candidate fonts load, the font used is the first in the list
\* that loads, no candidate after it is tried, the built-in font is used when
\* none loads, a failed load does not stop the renderer, and the font is
\* chosen before a text is measured or drawn.
FirstLoadable == IF loadable = {} THEN 0 ELSE Least(loadable)

C8_FirstFontThatLoads ==
    /\ pc # "raised"
    /\ pc \in {"r_font", "r_fallback"} => line_h = 0 /\ lines = << >> /\ img.texts = << >>
    /\ pc = "r_fallback" =>
          /\ font = (IF loadable = {} THEN None ELSE possible_fonts[FirstLoadable])
          /\ p = (IF loadable = {} THEN Len(possible_fonts) + 1 ELSE FirstLoadable)
    /\ (pc \in {"r_layout", "r_draw"} \/ (pc = "returned" /\ rasterized)) =>
          /\ font = (IF loadable = {} THEN DefaultFont ELSE possible_fonts[FirstLoadable])
          /\ p = (IF loadable = {} THEN Len(possible_fonts) + 1 ELSE FirstLoadable)
          /\ \A i \in 1..Len(img.texts) : img.texts[i].font = font

C8_Witness ==
    /\ pc = "returned" /\ rasterized
    /\ loadable = {2, 3}
    /\ font = possible_fonts[2]
    /\ p = 2

\* C9: a step of a run changes no file but the two named by the run's own
\* timestamp; the vector file of that name is overwritten by the run's
\* document whatever an earlier run left there.
FrameStep ==
    /\ \A n \in Names :
          files'[n] # files[n] =>
              /\ n.stem = << "quote-", ts' >>
              /\ pc \in {"save", "r_draw"}
    /\ (pc = "save" /\ pc' = "report_svg") => files'[SvgName(ts')] = svg
    /\ (pc = "r_draw" /\ pc' = "returned") => files'[PngName(ts')] = img

C9_OwnFilesOnly == [][FrameStep]_vars

C9_Witness ==
    /\ runs >= 2 /\ pc = "done" /\ rasterized
    /\ {n \in Names : files[n] # NoObject} = {SvgName(ts), PngName(ts)}

\* C10: after the last line is drawn the y cursor is at the top y plus the
\* block height used for centring plus 6.
C10_CursorAtBlockEnd ==
    (pc = "r_draw" /\ k > Len(lines) /\ Len(lines) >= 1) =>
        y = img.texts[1].xy[2] + total_h + 6

====
